---- MODULE Spec2Model ----
(***************************************************************************)
(* modules2tuple: conversion of a vendor/modules.txt manifest into a       *)
(* GH_TUPLE macro (src/modules2tuple.go).                                  *)
(*                                                                         *)
(* A Go string is modelled as a sequence of one-character strings, so that *)
(* the regular expressions, strings.Split, strings.Fields and the          *)
(* byte-wise comparison of the sort are computed character by character.   *)
(***************************************************************************)
EXTENDS Integers, Sequences, FiniteSets, TLC

VARIABLES
    pc,               \* position of the running function
    spec,             \* argument of the current/last ParsePackage call
    result,           \* value returned by that call: (pkg, err)
    packagePrefix,    \* -prefix flag (global packagePrefix)
    manifest,         \* the lines of the file named by args[0]
    pos,              \* number of lines scanner.Scan() has delivered
    parsedPackages,   \* main: parsedPackages
    unparsedPackages, \* main: unparsedPackages
    stdout,           \* lines written to os.Stdout
    stderr,           \* lines written to os.Stderr
    printed,          \* number of packages printed so far
    exitCode          \* process exit status, -1 while running

vars == <<pc, spec, result, packagePrefix, manifest, pos, parsedPackages,
          unparsedPackages, stdout, stderr, printed,
          exitCode>>

----------------------------------------------------------------------------
(* Characters *)

Digit == {"0", "1", "2", "3", "4", "5", "6", "7", "8", "9"}

LowerAlpha == {"a", "b", "c", "d", "e", "f", "g", "h", "i", "j", "k", "l", "m",
               "n", "o", "p", "q", "r", "s", "t", "u", "v", "w", "x", "y", "z"}

UpperAlpha == {"A", "B", "C", "D", "E", "F", "G", "H", "I", "J", "K", "L", "M",
               "N", "O", "P", "Q", "R", "S", "T", "U", "V", "W", "X", "Y", "Z"}

\* [0-9A-Za-z]
Alnum == Digit \cup LowerAlpha \cup UpperAlpha

\* [0-9A-Za-z\.-]
AlnumDotHyphen == Alnum \cup {".", "-"}

\* [-0-9A-Za-z]
AlnumHyphen == Alnum \cup {"-"}

\* [0-9a-f]
LowerHex == Digit \cup {"a", "b", "c", "d", "e", "f"}

\* \w
WordChar == Alnum \cup {"_"}

\* the whitespace of strings.Fields that a TLA+ string can hold
Space == {" ", "\t", "\n", "\r", "\f"}

\* the ASCII characters from 32 (space) to 95 (_), in byte order
Ascii32 == <<" ", "!", "\"", "#", "$", "%", "&">> \o <<"'">> \o
    <<"(", ")", "*", "+", ",", "-", ".", "/", "0", "1", "2", "3", "4", "5", "6", "7", "8", "9", ":", ";", "<", "=", ">", "?", "@", "A", "B", "C", "D", "E", "F", "G", "H", "I", "J", "K", "L", "M", "N", "O", "P", "Q", "R", "S", "T", "U", "V", "W", "X", "Y", "Z", "[", "\\", "]", "^", "_">>

\* the ASCII characters from 97 (a) to 126 (~), in byte order
Ascii97 == <<"a", "b", "c", "d", "e", "f", "g", "h", "i", "j", "k", "l", "m", "n", "o", "p", "q", "r", "s", "t", "u", "v", "w", "x", "y", "z", "{", "|", "}", "~">>

\* the byte value of a character
Ord(c) ==
    IF c = "\t" THEN 9
    ELSE IF c = "\n" THEN 10
    ELSE IF c = "\f" THEN 12
    ELSE IF c = "\r" THEN 13
    ELSE IF \E i \in 1..Len(Ascii32) : Ascii32[i] = c
         THEN 31 + (CHOOSE i \in 1..Len(Ascii32) : Ascii32[i] = c)
         ELSE 96 + (CHOOSE i \in 1..Len(Ascii97) : Ascii97[i] = c)

\* strings.ToLower on one character
ToLowerChar(c) == IF c \in UpperAlpha THEN Ascii97[Ord(c) + 32 - 96] ELSE c

----------------------------------------------------------------------------
(* package strings *)

Min(a, b) == IF a < b THEN a ELSE b

\* s[i:] (1-based i)
From(s, i) == SubSeq(s, i, Len(s))

\* strings.HasPrefix
HasPrefix(s, prefix) ==
    Len(s) >= Len(prefix) /\ SubSeq(s, 1, Len(prefix)) = prefix

\* strings.TrimPrefix
TrimPrefix(s, prefix) == IF HasPrefix(s, prefix) THEN From(s, Len(prefix) + 1) ELSE s

\* strings.Index, 1-based; 0 when sep does not occur in s
Index(s, sep) ==
    LET at == {i \in 1..(Len(s) - Len(sep) + 1) : SubSeq(s, i, i + Len(sep) - 1) = sep}
    IN  IF at = {} THEN 0 ELSE CHOOSE i \in at : \A j \in at : i <= j

\* strings.Contains
Contains(s, sep) == Index(s, sep) # 0

\* strings.Split with a non-empty separator: cut at each leftmost occurrence
RECURSIVE Split(_, _)
Split(s, sep) ==
    LET i == Index(s, sep)
    IN  IF i = 0 THEN <<s>>
        ELSE <<SubSeq(s, 1, i - 1)>> \o Split(From(s, i + Len(sep)), sep)

\* the position after the longest run of characters of class that starts at i
SpanEnd(s, i, class) ==
    CHOOSE j \in i..(Len(s) + 1) :
        /\ j = Len(s) + 1 \/ s[j] \notin class
        /\ \A k \in i..(j - 1) : s[k] \in class

\* the position of the first character at or after i that is in class
SkipTo(s, i, class) ==
    CHOOSE j \in i..(Len(s) + 1) :
        /\ j = Len(s) + 1 \/ s[j] \in class
        /\ \A k \in i..(j - 1) : s[k] \notin class

\* strings.Fields: the maximal runs of non-space characters
RECURSIVE Fields(_)
Fields(s) ==
    LET b == SpanEnd(s, 1, Space)
        e == SkipTo(s, b, Space)
    IN  IF b > Len(s) THEN << >>
        ELSE <<SubSeq(s, b, e - 1)>> \o Fields(From(s, e))

\* the Go comparison a < b of two strings: byte-wise lexicographic
StringLess(a, b) ==
    LET m == Min(Len(a), Len(b))
        \* the first position where a and b differ, m + 1 if one is a prefix
        \* of the other
        d == CHOOSE i \in 1..(m + 1) :
                /\ i = m + 1 \/ a[i] # b[i]
                /\ \A j \in 1..(i - 1) : a[j] = b[j]
    IN  IF d = m + 1 THEN Len(a) < Len(b) ELSE Ord(a[d]) < Ord(b[d])

----------------------------------------------------------------------------
(* The regular expressions.  Each matcher walks the string once from the   *)
(* left; every repetition of a pattern is followed by a character outside  *)
(* its class (or by \z), so the longest run is the only one that can match.*)
(* A matcher returns [matched, sub]: sub is the submatch sm[0][1], or the  *)
(* pair sm[0][1], sm[0][2].                                                *)

NoMatch == [matched |-> FALSE, sub |-> << >>]

\* `v\d+\.\d+\.\d+` at the start of s: the position after it, 0 if absent
VersionCoreEnd(s) ==
    LET d1 == SpanEnd(s, 2, Digit)
        d2 == SpanEnd(s, d1 + 1, Digit)
        d3 == SpanEnd(s, d2 + 1, Digit)
    IN  IF /\ Len(s) >= 1 /\ s[1] = "v"
           /\ d1 > 2 /\ d1 <= Len(s) /\ s[d1] = "."
           /\ d2 > d1 + 1 /\ d2 <= Len(s) /\ s[d2] = "."
           /\ d3 > d2 + 1
        THEN d3 ELSE 0

\* the least number of characters `[0-9A-Za-z]+[0-9A-Za-z\.-]+` takes: each
\* `+` takes one
PrereleaseMinLen == 2

\* `(?:-[0-9A-Za-z]+[0-9A-Za-z\.-]+)?` at position i of s: the position after
\* it (i itself when the optional group is skipped)
PrereleaseEnd(s, i) ==
    LET e == SpanEnd(s, i + 1, AlnumDotHyphen)
    IN  IF /\ i <= Len(s) /\ s[i] = "-"
           /\ i + 1 <= Len(s) /\ s[i + 1] \in Alnum
           /\ e - (i + 1) >= PrereleaseMinLen
        THEN e ELSE i

\* versionRx:
\* `\A(v\d+\.\d+\.\d+(?:-[0-9A-Za-z]+[0-9A-Za-z\.-]+)?)(?:\+incompatible)?\z`
versionRx(s) ==
    LET c == VersionCoreEnd(s)
        e == PrereleaseEnd(s, c)
    IN  IF c # 0 /\ From(s, e) \in {<< >>, <<"+", "i", "n", "c", "o", "m", "p", "a", "t", "i", "b", "l", "e">>}
        THEN [matched |-> TRUE, sub |-> SubSeq(s, 1, e - 1)]
        ELSE NoMatch

\* the number of characters the group `([0-9a-f]{7})` captures
TagLen == 7

\* the least number of characters `[0-9a-f]+` takes after the group
TagRestMinLen == 1

\* the number of digits of `\d{14}`
TimestampLen == 14

\* tagRx: `\Av\d+\.\d+\.\d+-(?:\d+\.)?\d{14}-([0-9a-f]{7})[0-9a-f]+\z`
tagRx(s) ==
    LET c  == VersionCoreEnd(s)
        n  == SpanEnd(s, c + 1, Digit)
        \* `(?:\d+\.)?`: taken when the digits after the hyphen end in a dot
        t  == IF n > c + 1 /\ n <= Len(s) /\ s[n] = "." THEN n + 1 ELSE c + 1
        te == SpanEnd(s, t, Digit)
        h  == te + 1
    IN  IF /\ c # 0 /\ c <= Len(s) /\ s[c] = "-"
           /\ te - t = TimestampLen
           /\ te <= Len(s) /\ s[te] = "-"
           /\ SpanEnd(s, h, LowerHex) = Len(s) + 1
           /\ Len(s) + 1 - h >= TagLen + TagRestMinLen
        THEN [matched |-> TRUE, sub |-> SubSeq(s, h, h + TagLen - 1)]
        ELSE NoMatch

\* `[0-9A-Za-z][-0-9A-Za-z]+` at position i of s: the position after it, 0
\* if absent
IdentEnd(s, i) ==
    LET e == SpanEnd(s, i + 1, AlnumHyphen)
    IN  IF i <= Len(s) /\ s[i] \in Alnum /\ e - i >= 2 THEN e ELSE 0

\* `\.v.+` matches the whole rest of s from position i.  A name is a field
\* of strings.Fields and holds no newline, so `.` matches each character.
DotVToEnd(s, i) == i + 2 <= Len(s) /\ s[i] = "." /\ s[i + 1] = "v"

\* gopkgInRx:
\* `\Agopkg\.in/([0-9A-Za-z][-0-9A-Za-z]+)(?:\.v.+)?(?:/([0-9A-Za-z][-0-9A-Za-z]+)(?:\.v.+))?\z`
\* The first `(?:\.v.+)?` is tried before the second group and its greedy
\* `.+` runs to the end of the name, so whenever it can be taken it wins
\* and the second group stays empty.
gopkgInRx(s) ==
    LET prefix == <<"g", "o", "p", "k", "g", ".", "i", "n", "/">>
        b1 == Len(prefix) + 1
        e1 == IF HasPrefix(s, prefix) THEN IdentEnd(s, b1) ELSE 0
        e2 == IF e1 # 0 /\ e1 <= Len(s) /\ s[e1] = "/" THEN IdentEnd(s, e1 + 1) ELSE 0
    IN  IF e1 = 0 THEN NoMatch
        ELSE IF DotVToEnd(s, e1) \/ e1 = Len(s) + 1
        THEN [matched |-> TRUE, sub |-> <<SubSeq(s, b1, e1 - 1), << >> >>]
        ELSE IF e2 # 0 /\ DotVToEnd(s, e2)
        THEN [matched |-> TRUE, sub |-> <<SubSeq(s, b1, e1 - 1), SubSeq(s, e1 + 1, e2 - 1)>>]
        ELSE NoMatch

\* golangOrgRx: `\Agolang\.org/x/([0-9A-Za-z][-0-9A-Za-z]+)\z`
golangOrgRx(s) ==
    LET prefix == <<"g", "o", "l", "a", "n", "g", ".", "o", "r", "g", "/", "x", "/">>
        b == Len(prefix) + 1
    IN  IF HasPrefix(s, prefix) /\ IdentEnd(s, b) = Len(s) + 1
        THEN [matched |-> TRUE, sub |-> SubSeq(s, b, Len(s))]
        ELSE NoMatch

\* groupRe.ReplaceAllString(g, "_") with groupRe = `[^\w]+`: every maximal
\* run of non-word characters becomes one underscore
RECURSIVE groupReReplaceAll(_)
groupReReplaceAll(g) ==
    IF g = << >> THEN << >>
    ELSE IF g[1] \in WordChar THEN <<g[1]>> \o groupReReplaceAll(Tail(g))
    ELSE <<"_">> \o groupReReplaceAll(From(g, SkipTo(g, 1, WordChar)))

\* strings.ToLower
ToLower(s) == [i \in 1..Len(s) |-> ToLowerChar(s[i])]

----------------------------------------------------------------------------
(* type Package, ParsePackage and the name resolvers *)

\* a *Package that is nil
NilPackage == [Name |-> << >>, Account |-> << >>, Project |-> << >>, Tag |-> << >>]

\* return p, nil
Ok(p) == [err |-> "", arg |-> << >>, pkg |-> p]

\* return nil, fmt.Errorf(msg, arg)
Fail(msg, arg) == [err |-> msg, arg |-> arg, pkg |-> NilPackage]

WK(account, project) == [Account |-> account, Project |-> project]

\* List of well-known Github mirrors
wellKnownPackages ==
    (<<"c", "l", "o", "u", "d", ".", "g", "o", "o", "g", "l", "e", ".", "c", "o", "m", "/", "g", "o">> :> WK(<<"g", "o", "o", "g", "l", "e", "a", "p", "i", "s">>, <<"g", "o", "o", "g", "l", "e", "-", "c", "l", "o", "u", "d", "-", "g", "o">>)) @@
    (<<"c", "o", "n", "t", "r", "i", "b", ".", "g", "o", ".", "o", "p", "e", "n", "c", "e", "n", "s", "u", "s", ".", "i", "o", "/", "e", "x", "p", "o", "r", "t", "e", "r", "/", "o", "c", "a", "g", "e", "n", "t">> :>
        WK(<<"c", "e", "n", "s", "u", "s", "-", "e", "c", "o", "s", "y", "s", "t", "e", "m">>, <<"o", "p", "e", "n", "c", "e", "n", "s", "u", "s", "-", "g", "o", "-", "e", "x", "p", "o", "r", "t", "e", "r", "-", "o", "c", "a", "g", "e", "n", "t">>)) @@
    (<<"d", "o", "c", "k", "e", "r", ".", "i", "o", "/", "g", "o", "-", "d", "o", "c", "k", "e", "r">> :> WK(<<"d", "o", "c", "k", "e", "r">>, <<"g", "o", "-", "d", "o", "c", "k", "e", "r">>)) @@
    (<<"g", "i", "t", ".", "a", "p", "a", "c", "h", "e", ".", "o", "r", "g", "/", "t", "h", "r", "i", "f", "t", ".", "g", "i", "t">> :> WK(<<"a", "p", "a", "c", "h", "e">>, <<"t", "h", "r", "i", "f", "t">>)) @@
    (<<"g", "o", ".", "o", "p", "e", "n", "c", "e", "n", "s", "u", "s", ".", "i", "o">> :> WK(<<"c", "e", "n", "s", "u", "s", "-", "i", "n", "s", "t", "r", "u", "m", "e", "n", "t", "a", "t", "i", "o", "n">>, <<"o", "p", "e", "n", "c", "e", "n", "s", "u", "s", "-", "g", "o">>)) @@
    (<<"g", "o", ".", "u", "b", "e", "r", ".", "o", "r", "g", "/", "a", "t", "o", "m", "i", "c">> :> WK(<<"u", "b", "e", "r", "-", "g", "o">>, <<"a", "t", "o", "m", "i", "c">>)) @@
    (<<"g", "o", "o", "g", "l", "e", ".", "g", "o", "l", "a", "n", "g", ".", "o", "r", "g", "/", "a", "p", "i">> :> WK(<<"g", "o", "o", "g", "l", "e", "a", "p", "i", "s">>, <<"g", "o", "o", "g", "l", "e", "-", "a", "p", "i", "-", "g", "o", "-", "c", "l", "i", "e", "n", "t">>)) @@
    (<<"g", "o", "o", "g", "l", "e", ".", "g", "o", "l", "a", "n", "g", ".", "o", "r", "g", "/", "a", "p", "p", "e", "n", "g", "i", "n", "e">> :> WK(<<"g", "o", "l", "a", "n", "g">>, <<"a", "p", "p", "e", "n", "g", "i", "n", "e">>)) @@
    (<<"g", "o", "o", "g", "l", "e", ".", "g", "o", "l", "a", "n", "g", ".", "o", "r", "g", "/", "g", "e", "n", "p", "r", "o", "t", "o">> :> WK(<<"g", "o", "o", "g", "l", "e">>, <<"g", "o", "-", "g", "e", "n", "p", "r", "o", "t", "o">>)) @@
    (<<"g", "o", "o", "g", "l", "e", ".", "g", "o", "l", "a", "n", "g", ".", "o", "r", "g", "/", "g", "r", "p", "c">> :> WK(<<"g", "r", "p", "c">>, <<"g", "r", "p", "c", "-", "g", "o">>)) @@
    (<<"g", "o", "p", "k", "g", ".", "i", "n", "/", "f", "s", "n", "o", "t", "i", "f", "y", ".", "v", "1">> :> WK(<<"f", "s", "n", "o", "t", "i", "f", "y">>, <<"f", "s", "n", "o", "t", "i", "f", "y">>))

\* const replaceOp
replaceOp == <<" ", "=", ">", " ">>

\* the prefixes of the switch on the package name
GithubPrefix == <<"g", "i", "t", "h", "u", "b", ".", "c", "o", "m">>
GopkgInPrefix == <<"g", "o", "p", "k", "g", ".", "i", "n">>
GolangOrgPrefix == <<"g", "o", "l", "a", "n", "g", ".", "o", "r", "g">>

\* gopkg.in/pkg.v3 -> github.com/go-pkg/pkg
\* gopkg.in/user/pkg.v3 -> github.com/user/pkg
parseGopkgInPackage(name) ==
    LET sm == gopkgInRx(name)
    IN  IF ~sm.matched THEN WK(<< >>, << >>)
        ELSE IF sm.sub[2] = << >> THEN WK(<<"g", "o", "-">> \o sm.sub[1], sm.sub[1])
        ELSE WK(sm.sub[1], sm.sub[2])

\* golang.org/x/pkg -> github.com/golang/pkg
parseGolangOrgPackage(name) ==
    LET sm == golangOrgRx(name)
    IN  IF ~sm.matched THEN WK(<< >>, << >>) ELSE WK(<<"g", "o", "l", "a", "n", "g">>, sm.sub)

\* the least len(nameParts) of a Github package name
GithubMinParts == 3

\* GithubAccountProject with each index one too low: the host as Account
GithubAccountProjectShifted(nameParts) == WK(nameParts[1], nameParts[2])

\* p.Account = nameParts[1]; p.Project = nameParts[2] (0-based in the source)
GithubAccountProject(nameParts) == WK(nameParts[2], nameParts[3])

\* "Parse package name": [err, Account, Project]
ParseName(name) ==
    IF name \in DOMAIN wellKnownPackages
    THEN [err |-> ""] @@ wellKnownPackages[name]
    ELSE IF HasPrefix(name, GithubPrefix)
    THEN LET nameParts == Split(name, <<"/">>)
         IN  IF Len(nameParts) < GithubMinParts
             THEN [err |-> "unexpected Github package name"] @@ WK(<< >>, << >>)
             ELSE [err |-> ""] @@ GithubAccountProject(nameParts)
    ELSE IF HasPrefix(name, GopkgInPrefix)
    THEN [err |-> ""] @@ parseGopkgInPackage(name)
    ELSE IF HasPrefix(name, GolangOrgPrefix)
    THEN [err |-> ""] @@ parseGolangOrgPackage(name)
    ELSE [err |-> ""] @@ WK(<< >>, << >>)

\* "Parse version": [err, Tag]; tagRx is tried before versionRx
ParseVersion(version) ==
    IF tagRx(version).matched
    THEN [err |-> "", Tag |-> tagRx(version).sub]
    ELSE IF versionRx(version).matched
    THEN [err |-> "", Tag |-> versionRx(version).sub]
    ELSE [err |-> "unexpected version string", Tag |-> << >>]

\* ParsePackage, "Regular package spec"
ParseRegular(s) ==
    LET fields == Fields(s)
        name == fields[1]
        version == fields[2]
        n == ParseName(name)
        v == ParseVersion(version)
    IN  IF Len(fields) # 2 THEN Fail("unexpected number of fileds", s)
        ELSE IF n.err # "" THEN Fail(n.err, name)
        ELSE IF v.err # "" THEN Fail(v.err, version)
        ELSE Ok([Name |-> name, Account |-> n.Account, Project |-> n.Project,
                 Tag |-> v.Tag])

\* ReplacedPackage without the assignment p.Name = pOld.Name
ReplacedPackageKeepsNewName(pOld, p) == p

\* "Keep the old package Name but with new Account, Project and Tag"
ReplacedPackage(pOld, p) == [p EXCEPT !.Name = pOld.Name]

\* ParsePackage
RECURSIVE ParsePackage(_)
ParsePackage(s) ==
    IF Contains(s, replaceOp)
    THEN \* Replaced package spec
         LET pkgs == Split(s, replaceOp)
             old == ParsePackage(pkgs[1])
             new == ParsePackage(pkgs[2])
         IN  IF Len(pkgs) # 2
             THEN Fail("unexpected number of packages in replace spec", s)
             ELSE IF old.err # "" THEN old
             ELSE IF new.err # "" THEN new
             ELSE Ok(ReplacedPackage(old.pkg, new.pkg))
    ELSE ParseRegular(s)

\* Parsed with || in the place of &&
ParsedEither(p) == p.Account # << >> \/ p.Project # << >>

\* Package.Parsed
Parsed(p) == p.Account # << >> /\ p.Project # << >>

\* Package.Group
Group(p) == ToLower(groupReReplaceAll(p.Account \o <<"_">> \o p.Project))

\* Package.String
String(p) ==
    p.Account \o <<":">> \o p.Project \o <<":">> \o p.Tag \o <<":">> \o Group(p)
        \o <<"/">> \o packagePrefix \o <<"/">> \o p.Name

\* Less comparing the package names, not the rendered strings
LessByName(p, q) == StringLess(p.Name, q.Name)

\* PackagesByAccountAndProject.Less on two elements
Less(p, q) == StringLess(String(p), String(q))

----------------------------------------------------------------------------
(* The bounded sets the inputs are drawn from *)

\* the most path segments appended to a host name
MaxSegs == 3
\* the most characters of a generated prerelease suffix
MaxPreLen == 2
\* the most characters of a generated commit hash
MaxHexLen == 9
\* the most lines of a manifest
MaxLines == 3

\* all sequences over set of length lo..hi
SeqsOf(set, lo, hi) == UNION {[1..n -> set] : n \in lo..hi}

\* s[1] \o s[2] \o ... for a sequence of strings
RECURSIVE Concat(_)
Concat(ss) == IF ss = << >> THEN << >> ELSE Head(ss) \o Concat(Tail(ss))

\* package names: a host followed by path segments
Hosts == {<<"g", "i", "t", "h", "u", "b", ".", "c", "o", "m">>, <<"g", "i", "t", "h", "u", "b", ".", "c", "o", "m", "m", "u", "n", "i", "t", "y">>, <<"g", "o", "p", "k", "g", ".", "i", "n">>, <<"g", "o", "l", "a", "n", "g", ".", "o", "r", "g">>,
          <<"e", "x", "a", "m", "p", "l", "e", ".", "c", "o", "m">>, <<"c", "l", "o", "u", "d", ".", "g", "o", "o", "g", "l", "e", ".", "c", "o", "m", "/", "g", "o">>}

\* path segments: package names, and package names with a `.v<N>` suffix
PkgNames == {<<"x">>, <<"f", "o", "o">>}
VersionedPkgs == {<<"y", "a", "m", "l", ".", "v", "2">>, <<"x", ".", "v", "1">>}
Segs == PkgNames \cup VersionedPkgs \cup {<< >>}

Names ==
    {h \o Concat([i \in 1..Len(ss) |-> <<"/">> \o ss[i]]) :
        h \in Hosts, ss \in SeqsOf(Segs, 0, MaxSegs)}
    \cup DOMAIN wellKnownPackages

\* version strings
Cores == {<<"v", "1", ".", "2", ".", "3">>, <<"v", "1", "0", ".", "0", ".", "2", "0">>}
BadCores == {<<"1", ".", "2", ".", "3">>, <<"v", "1", ".", "2">>, <<"v", "1", ".", "2", ".", "x">>}

Timestamp == <<"2", "0", "1", "8", "1", "0", "0", "1", "1", "4", "3", "6", "0", "4">>
BadTimestamps == {<<"2", "0", "1", "8", "1", "0", "0", "1", "1", "4", "3", "6", "0">>, <<"2", "0", "1", "8", "1", "0", "0", "1", "1", "4", "3", "6", "0", "4", "5">>}

CommitHash == <<"e", "0", "a", "9", "5", "d", "f", "d", "5", "4", "7", "c", "0", "1", "2", "3">>
\* the first n characters of the commit hash
Hexes == {SubSeq(CommitHash, 1, n) : n \in (TagLen - 1)..MaxHexLen}
BadHexes == {<<"e", "0", "a", "9", "5", "d", "f", "g">>, <<"E", "0", "A", "9", "5", "D", "F", "D">>, <<"e", "0", "a", "9", "5", "d", "f", "-">>}

\* the optional `<N>.` of a pseudo-version
Revisions == {<< >>, <<"3", ".">>, <<"0", ".">>}

PseudoVersion(core, rev, ts, hex) == core \o <<"-">> \o rev \o ts \o <<"-">> \o hex

PseudoVersionInputs ==
    {PseudoVersion(c, r, t, h) :
        c \in Cores \cup {<<"v", "1", ".", "2">>}, r \in Revisions \cup {<<"x", ".">>},
        t \in {Timestamp} \cup BadTimestamps, h \in Hexes \cup BadHexes}

PreChars == {"r", "1", ".", "-", "_"}
Prereleases == SeqsOf(PreChars, 1, MaxPreLen) \cup {<<"r", "c", ".", "1">>, <<"p", "r", "e", "-", "r", "e", "l", "e", "a", "s", "e", "-", "s", "u", "f", "f", "i", "x">>}

Incompatible == <<"+", "i", "n", "c", "o", "m", "p", "a", "t", "i", "b", "l", "e">>

SemverInputs ==
    {c \o p \o i :
        c \in Cores \cup BadCores,
        p \in {<< >>, <<"-">>} \cup {<<"-">> \o pre : pre \in Prereleases},
        i \in {<< >>, Incompatible, <<"+", "i", "n", "c", "o", "m", "p", "a", "t", "i", "b", "l">>, <<"+", "m", "e", "t", "a">>}}

Versions == PseudoVersionInputs \cup SemverInputs

\* a few names and versions of each kind, to pair with every version and name
CoreNames == {<<"g", "i", "t", "h", "u", "b", ".", "c", "o", "m", "/", "f", "o", "o", "/", "b", "a", "r">>, <<"e", "x", "a", "m", "p", "l", "e", ".", "c", "o", "m", "/", "a">>}
CoreVersions == {<<"v", "1", ".", "0", ".", "0">>, PseudoVersion(<<"v", "0", ".", "0", ".", "0">>, << >>, Timestamp, <<"e", "0", "a", "9", "5", "d", "f", "d", "5", "4", "7", "c">>),
                 <<"m", "a", "s", "t", "e", "r">>}

PlainSpec(name, version) == name \o <<" ">> \o version

PlainSpecs ==
    {PlainSpec(n, v) : n \in Names, v \in CoreVersions}
    \cup {PlainSpec(n, v) : n \in CoreNames, v \in Versions}

\* plain specs with a wrong number of fields, or with other spacing
OddSpecs == {<< >>, <<" ">>, <<"e", "x", "a", "m", "p", "l", "e", ".", "c", "o", "m", "/", "a">>, <<"e", "x", "a", "m", "p", "l", "e", ".", "c", "o", "m", "/", "a", " ", "v", "1", ".", "0", ".", "0", " ", "e", "x", "t", "r", "a">>,
             <<" ", " ", "e", "x", "a", "m", "p", "l", "e", ".", "c", "o", "m", "/", "a", " ", "\t", " ", "v", "1", ".", "0", ".", "0", " ">>, <<"g", "i", "t", "h", "u", "b", ".", "c", "o", "m", "/", "f", "o", "o", " ", "v", "1", ".", "0", ".", "0", " ", "e", "x", "t", "r", "a">>}

\* the sides of a replace spec
Sides == {<<"o", "l", "d", ".", "e", "x", "a", "m", "p", "l", "e", ".", "c", "o", "m", "/", "a", " ", "v", "1", ".", "0", ".", "0">>, <<"g", "i", "t", "h", "u", "b", ".", "c", "o", "m", "/", "x", "/", "y", " ", "v", "1", ".", "2", ".", "0">>,
          <<"g", "o", "p", "k", "g", ".", "i", "n", "/", "y", "a", "m", "l", ".", "v", "2", " ", "v", "2", ".", "2", ".", "2">>,
          <<"e", "x", "a", "m", "p", "l", "e", ".", "c", "o", "m", "/", "b", " ", "v", "0", ".", "0", ".", "0", "-", "2", "0", "1", "8", "1", "0", "0", "1", "1", "4", "3", "6", "0", "4", "-", "e", "0", "a", "9", "5", "d", "f", "d", "5", "4", "7", "c">>,
          <<"g", "i", "t", "h", "u", "b", ".", "c", "o", "m", "/", "f", "o", "o", " ", "v", "1", ".", "0", ".", "0">>, <<"e", "x", "a", "m", "p", "l", "e", ".", "c", "o", "m", "/", "c", " ", "m", "a", "s", "t", "e", "r">>,
          <<"e", "x", "a", "m", "p", "l", "e", ".", "c", "o", "m", "/", "a">>, << >>}

Arrows == {replaceOp, <<" ", " ", "=", ">", " ", " ">>, <<" ", "=", ">">>, <<"=", ">", " ">>, <<" ", "=", ">", " ", "=", ">", " ">>}

ReplaceSpecs ==
    {a \o op \o b : a \in Sides, b \in Sides, op \in Arrows}
    \cup {a \o replaceOp \o b \o replaceOp \o c :
            a \in {<<"o", "l", "d", ".", "e", "x", "a", "m", "p", "l", "e", ".", "c", "o", "m", "/", "a", " ", "v", "1", ".", "0", ".", "0">>}, b \in Sides,
            c \in {<<"g", "i", "t", "h", "u", "b", ".", "c", "o", "m", "/", "x", "/", "y", " ", "v", "1", ".", "2", ".", "0">>, << >>}}

SpecInputs == PlainSpecs \cup OddSpecs \cup ReplaceSpecs

\* manifest lines: package entries that resolve (two of them to references
\* that differ and are rendered alike), entries that do not resolve, an
\* entry ParsePackage rejects, and a line without the "# " marker
Lines == {<<"#", " ", "g", "i", "t", "h", "u", "b", ".", "c", "o", "m", "/", "f", "o", "o", "/", "b", "a", "r", " ", "v", "1", ".", "0", ".", "0">>,
          <<"#", " ", "x", ".", "e", "x", "a", "m", "p", "l", "e", "/", "t", " ", "v", "1", ".", "0", ".", "0", " ", "=", ">", " ", "g", "i", "t", "h", "u", "b", ".", "c", "o", "m", "/", "Z", ":", "b", "/", "c", " ", "v", "1", ".", "2", ".", "0">>,
          <<"#", " ", "x", ".", "e", "x", "a", "m", "p", "l", "e", "/", "t", " ", "v", "1", ".", "0", ".", "0", " ", "=", ">", " ", "g", "i", "t", "h", "u", "b", ".", "c", "o", "m", "/", "Z", "/", "b", ":", "c", " ", "v", "1", ".", "2", ".", "0">>,
          <<"#", " ", "e", "x", "a", "m", "p", "l", "e", ".", "c", "o", "m", "/", "a", " ", "v", "1", ".", "2", ".", "3">>,
          <<"#", " ", "g", "i", "t", "h", "u", "b", ".", "c", "o", "m", "/", "/", "x", " ", "v", "1", ".", "0", ".", "0">>,
          <<"#", " ", "g", "i", "t", "h", "u", "b", ".", "c", "o", "m", "/", "f", "o", "o", " ", "v", "1", ".", "0", ".", "0">>,
          <<"#", "#", " ", "e", "x", "p", "l", "i", "c", "i", "t">>}

Manifests == SeqsOf(Lines, 0, MaxLines)

\* values of the -prefix flag; "vendor" is its default
Prefixes == {<<"v", "e", "n", "d", "o", "r">>, <<"s", "r", "c">>}

----------------------------------------------------------------------------
(* func main *)

\* const specPrefix
specPrefix == <<"#", " ">>

\* var version
version == <<"d", "e", "v", "e", "l">>

NoResult == Ok(NilPackage)

\* the state common to the start of every run
Start ==
    /\ result = NoResult
    /\ pos = 0
    /\ parsedPackages = << >>
    /\ unparsedPackages = << >>
    /\ stdout = << >>
    /\ stderr = << >>
    /\ printed = 0
    /\ exitCode = -1

\* a run of the program on a manifest
Init ==
    /\ pc = "main"
    /\ manifest \in Manifests
    /\ packagePrefix \in Prefixes
    /\ spec = << >>
    /\ Start

\* os.Exit(code) after one line on stderr
Exit(code, line) ==
    /\ stderr' = Append(stderr, line)
    /\ exitCode' = code
    /\ pc' = "exit"

\* flagVersion: print the version and exit with status 0
ShowVersion ==
    /\ pc = "main"
    /\ Exit(0, version)
    /\ UNCHANGED <<spec, result, packagePrefix, manifest, pos, parsedPackages,
                   unparsedPackages, stdout, printed>>

\* len(args) == 0: flag.Usage() and exit with status 1
Usage ==
    /\ pc = "main"
    /\ Exit(1, <<"U", "s", "a", "g", "e", ":", " ", "m", "o", "d", "u", "l", "e", "s", "2", "t", "u", "p", "l", "e", " ", "[", "o", "p", "t", "i", "o", "n", "s", "]", " ", "m", "o", "d", "u", "l", "e", "s", ".", "t", "x", "t">>)
    /\ UNCHANGED <<spec, result, packagePrefix, manifest, pos, parsedPackages,
                   unparsedPackages, stdout, printed>>

\* os.Open(args[0]) fails
OpenError ==
    /\ pc = "main"
    /\ Exit(1, <<"o", "p", "e", "n", ":", " ", "n", "o", " ", "s", "u", "c", "h", " ", "f", "i", "l", "e", " ", "o", "r", " ", "d", "i", "r", "e", "c", "t", "o", "r", "y">>)
    /\ UNCHANGED <<spec, result, packagePrefix, manifest, pos, parsedPackages,
                   unparsedPackages, stdout, printed>>

\* os.Open(args[0]) succeeds
Open ==
    /\ pc = "main"
    /\ pc' = "scan"
    /\ UNCHANGED <<spec, result, packagePrefix, manifest, pos, parsedPackages,
                   unparsedPackages, stdout, stderr, printed, exitCode>>

\* one iteration of `for scanner.Scan()` on a line without the marker
SkipLine ==
    /\ pc = "scan"
    /\ pos < Len(manifest)
    /\ ~HasPrefix(manifest[pos + 1], specPrefix)
    /\ pos' = pos + 1
    /\ UNCHANGED <<pc, spec, result, packagePrefix, manifest, parsedPackages,
                   unparsedPackages, stdout, stderr, printed, exitCode>>

\* ScanLine without os.Exit(1): the error is printed and the loop goes on
ScanLineKeepsGoing ==
    /\ pc = "scan"
    /\ pos < Len(manifest)
    /\ HasPrefix(manifest[pos + 1], specPrefix)
    /\ pos' = pos + 1
    /\ spec' = TrimPrefix(manifest[pos + 1], specPrefix)
    /\ result' = ParsePackage(spec')
    /\ IF result'.err # ""
       THEN /\ stderr' = Append(stderr, <<result'.err, result'.arg>>)
            /\ UNCHANGED <<parsedPackages, unparsedPackages>>
       ELSE /\ IF Parsed(result'.pkg)
               THEN /\ parsedPackages' = Append(parsedPackages, result'.pkg)
                    /\ UNCHANGED unparsedPackages
               ELSE /\ unparsedPackages' = Append(unparsedPackages, result'.pkg)
                    /\ UNCHANGED parsedPackages
            /\ UNCHANGED stderr
    /\ UNCHANGED <<pc, exitCode, packagePrefix, manifest, stdout, printed>>

\* one iteration of `for scanner.Scan()` on a line with the marker
ScanLine ==
    /\ pc = "scan"
    /\ pos < Len(manifest)
    /\ HasPrefix(manifest[pos + 1], specPrefix)
    /\ pos' = pos + 1
    /\ spec' = TrimPrefix(manifest[pos + 1], specPrefix)
    /\ result' = ParsePackage(spec')
    /\ IF result'.err # ""
       THEN /\ Exit(1, <<result'.err, result'.arg>>)
            /\ UNCHANGED <<parsedPackages, unparsedPackages>>
       ELSE /\ IF Parsed(result'.pkg)
               THEN /\ parsedPackages' = Append(parsedPackages, result'.pkg)
                    /\ UNCHANGED unparsedPackages
               ELSE /\ unparsedPackages' = Append(unparsedPackages, result'.pkg)
                    /\ UNCHANGED parsedPackages
            /\ UNCHANGED <<pc, stderr, exitCode>>
    /\ UNCHANGED <<packagePrefix, manifest, stdout, printed>>

\* pp is in an order sort.Sort can leave: no element is Less than one before it
IsSorted(pp) == \A a, b \in 1..Len(pp) : a < b => ~Less(pp[b], pp[a])

\* the rearrangements of pp
Rearrangements(pp) ==
    {[k \in 1..Len(pp) |-> pp[f[k]]] :
        f \in {g \in [1..Len(pp) -> 1..Len(pp)] : \A a, b \in 1..Len(pp) : a # b => g[a] # g[b]}}

\* scanner.Scan() returns false; sort.Sort(PackagesByAccountAndProject(parsedPackages)).
\* sort.Sort is not stable: elements that are not Less than each other may
\* end in any order.
SortPackages ==
    /\ pc = "scan"
    /\ pos = Len(manifest)
    /\ \E pp \in Rearrangements(parsedPackages) :
          /\ IsSorted(pp)
          /\ parsedPackages' = pp
    /\ pc' = "header"
    /\ UNCHANGED <<spec, result, packagePrefix, manifest, pos, unparsedPackages,
                   stdout, stderr, printed, exitCode>>

\* fmt.Println("GH_TUPLE=\t\\")
PrintHeader ==
    /\ pc = "header"
    /\ stdout' = Append(stdout, <<"G", "H", "_", "T", "U", "P", "L", "E", "=", "\t", "\\">>)
    /\ pc' = "print"
    /\ UNCHANGED <<spec, result, packagePrefix, manifest, pos, parsedPackages,
                   unparsedPackages, stderr, printed, exitCode>>

\* one iteration of `for i, p := range parsedPackages`
PrintParsed ==
    /\ pc = "print"
    /\ printed < Len(parsedPackages)
    /\ stdout' = Append(stdout,
            <<"\t", "\t">> \o String(parsedPackages[printed + 1])
                \o (IF printed + 1 < Len(parsedPackages) THEN <<" ", "\\">> ELSE << >>))
    /\ printed' = printed + 1
    /\ UNCHANGED <<pc, spec, result, packagePrefix, manifest, pos, parsedPackages,
                   unparsedPackages, stderr, exitCode>>

\* one iteration of `for _, p := range unparsedPackages`
PrintUnparsed ==
    /\ pc = "print"
    /\ printed >= Len(parsedPackages)
    /\ printed < Len(parsedPackages) + Len(unparsedPackages)
    /\ stdout' = Append(stdout,
            <<"#", "\t", "\t">> \o String(unparsedPackages[printed - Len(parsedPackages) + 1]))
    /\ printed' = printed + 1
    /\ UNCHANGED <<pc, spec, result, packagePrefix, manifest, pos, parsedPackages,
                   unparsedPackages, stderr, exitCode>>

\* main returns: exit status 0
Return ==
    /\ pc = "print"
    /\ printed = Len(parsedPackages) + Len(unparsedPackages)
    /\ exitCode' = 0
    /\ pc' = "exit"
    /\ UNCHANGED <<spec, result, packagePrefix, manifest, pos, parsedPackages,
                   unparsedPackages, stdout, stderr, printed>>

Next ==
    \/ ShowVersion
    \/ Usage
    \/ OpenError
    \/ Open
    \/ SkipLine
    \/ ScanLine
    \/ SortPackages
    \/ PrintHeader
    \/ PrintParsed
    \/ PrintUnparsed
    \/ Return

Spec == Init /\ [][Next]_vars

----------------------------------------------------------------------------
(* ParsePackage on its own, on every input of SpecInputs *)

InitParse ==
    /\ pc = "ParsePackage"
    /\ manifest = << >>
    /\ packagePrefix = <<"v", "e", "n", "d", "o", "r">>
    /\ Start
    /\ spec \in SpecInputs

\* the call ParsePackage(spec) and its return
Call ==
    /\ pc = "ParsePackage"
    /\ result' = ParsePackage(spec)
    /\ pc' = "return"
    /\ UNCHANGED <<spec, packagePrefix, manifest, pos, parsedPackages,
                   unparsedPackages, stdout, stderr, printed, exitCode>>

NextParse == Call

SpecParse == InitParse /\ [][NextParse]_vars

----------------------------------------------------------------------------
(* Properties of ParsePackage, checked under SpecParse *)

Returned == pc = "return"

\* the spec is a plain one: no replace operator, a name and a version
IsPlain == ~Contains(spec, replaceOp) /\ Len(Fields(spec)) = 2
SpecName == Fields(spec)[1]
SpecVersion == Fields(spec)[2]

\* the prereleases the semantic-version pattern is said to accept: one or
\* more characters, the first alphanumeric, the others alphanumerics, dots
\* or hyphens
SaidPrereleases ==
    {p \in Prereleases :
        p[1] \in Alnum /\ \A k \in 1..Len(p) : p[k] \in AlnumDotHyphen}

\* C1: a plain spec whose version is v<major>.<minor>.<patch>-[<N>.]<14
\* digits>-<hex>, with <hex> 7 or more lowercase-hex characters, parses, and
\* its Tag is the first 7 characters of <hex> (never a 'v...' tag).
C1_PseudoVersionTag ==
    (Returned /\ IsPlain /\ ParseName(SpecName).err = "") =>
        \A c \in Cores, r \in Revisions, h \in Hexes :
            (Len(h) >= 7 /\ SpecVersion = PseudoVersion(c, r, Timestamp, h)) =>
                /\ result.err = ""
                /\ result.pkg.Tag = SubSeq(h, 1, 7)

\* What the code does at the edge of C1: from 8 hex characters on the Tag is
\* the first 7; with exactly 7 the pseudo-version pattern does not match,
\* the semantic-version pattern does, and the Tag is the whole version.
PseudoVersionTagByLength ==
    (Returned /\ IsPlain /\ ParseName(SpecName).err = "") =>
        \A c \in Cores, r \in Revisions, h \in Hexes :
            SpecVersion = PseudoVersion(c, r, Timestamp, h) =>
                /\ Len(h) >= 8 => (result.err = "" /\ result.pkg.Tag = SubSeq(h, 1, 7))
                /\ Len(h) = 7 => (result.err = "" /\ result.pkg.Tag = SpecVersion)

\* C2: a plain spec whose version is v<major>.<minor>.<patch>[-<prerelease>]
\* [+incompatible], not a pseudo-version, parses, and its Tag is the version
\* without a trailing +incompatible; a version neither pattern matches makes
\* ParsePackage fail.
C2_SemanticVersionTag ==
    (Returned /\ IsPlain /\ ParseName(SpecName).err = "") =>
        /\ \A c \in Cores, p \in {<< >>} \cup {<<"-">> \o pre : pre \in SaidPrereleases},
              inc \in {<< >>, Incompatible} :
                SpecVersion = c \o p \o inc =>
                    /\ result.err = ""
                    /\ result.pkg.Tag = c \o p
        /\ (~tagRx(SpecVersion).matched /\ ~versionRx(SpecVersion).matched) =>
                result.err = "unexpected version string"

\* What the code does at the edge of C2: a prerelease of the said form
\* parses from 2 characters on, and a prerelease of 1 character is an
\* unexpected version string.
SemanticVersionTagByLength ==
    (Returned /\ IsPlain /\ ParseName(SpecName).err = "") =>
        \A c \in Cores, pre \in SaidPrereleases, inc \in {<< >>, Incompatible} :
            SpecVersion = c \o <<"-">> \o pre \o inc =>
                /\ Len(pre) >= 2 => (result.err = "" /\ result.pkg.Tag = c \o <<"-">> \o pre)
                /\ Len(pre) = 1 => result.err = "unexpected version string"

\* C3: a spec containing " => " parses exactly when the split on " => "
\* yields two parts that each parse as a plain spec; the result has the
\* Name of the old side and the Account, Project and Tag of the new side.
C3_ReplaceSpec ==
    (Returned /\ Contains(spec, replaceOp)) =>
        LET parts == Split(spec, replaceOp)
            old == ParseRegular(parts[1])
            new == ParseRegular(parts[2])
        IN  /\ result.err = "" <=> (Len(parts) = 2 /\ old.err = "" /\ new.err = "")
            /\ result.err = "" =>
                /\ result.pkg.Name = old.pkg.Name
                /\ result.pkg.Account = new.pkg.Account
                /\ result.pkg.Project = new.pkg.Project
                /\ result.pkg.Tag = new.pkg.Tag
            /\ (Len(parts) > 2 \/ << >> \in {parts[k] : k \in 1..Len(parts)}) =>
                result.err # ""

\* a replace spec parsed, and its two sides name different packages
C3_Witness ==
    /\ Returned /\ Contains(spec, replaceOp) /\ result.err = ""
    /\ result.pkg.Name = <<"o", "l", "d", ".", "e", "x", "a", "m", "p", "l", "e", ".", "c", "o", "m", "/", "a">>
    /\ result.pkg.Account = <<"x">>
    /\ result.pkg.Project = <<"y">>
    /\ result.pkg.Tag = <<"v", "1", ".", "2", ".", "0">>

\* C4: for a plain spec whose name is not in the table and is under the
\* github.com rule: with 3 or more segments the Account is the 2nd and the
\* Project the 3rd; with fewer, ParsePackage fails whatever the version.
C4_GithubName ==
    (Returned /\ IsPlain /\ SpecName \notin DOMAIN wellKnownPackages
        /\ HasPrefix(SpecName, GithubPrefix)) =>
        LET segments == Split(SpecName, <<"/">>)
        IN  IF Len(segments) >= 3
            THEN /\ result.err = ParseVersion(SpecVersion).err
                 /\ result.err = "" =>
                        /\ result.pkg.Account = segments[2]
                        /\ result.pkg.Project = segments[3]
            ELSE result.err = "unexpected Github package name"

\* a github.com name of four segments parsed: the fourth is ignored
C4_Witness ==
    /\ Returned /\ IsPlain /\ result.err = ""
    /\ SpecName = <<"g", "i", "t", "h", "u", "b", ".", "c", "o", "m", "/", "f", "o", "o", "/", "y", "a", "m", "l", ".", "v", "2", "/", "x">>
    /\ result.pkg.Account = <<"f", "o", "o">>
    /\ result.pkg.Project = <<"y", "a", "m", "l", ".", "v", "2">>

\* the package name of a versioned segment: what precedes ".v"
PkgOf(vp) == SubSeq(vp, 1, Index(vp, <<".", "v">>) - 1)

\* C5: for a gopkg.in name not in the table: gopkg.in/<pkg>.v<N> gives
\* Account "go-"+pkg and Project pkg; gopkg.in/<user>/<pkg>.v<N> gives
\* Account user and Project pkg; any other gopkg.in name gives both fields
\* empty, and none of these is a failure.
C5_GopkgInName ==
    (Returned /\ IsPlain /\ SpecName \notin DOMAIN wellKnownPackages
        /\ HasPrefix(SpecName, GopkgInPrefix)) =>
        /\ result.err = ParseVersion(SpecVersion).err
        /\ result.err = "" =>
            IF \E vp \in VersionedPkgs : SpecName = <<"g", "o", "p", "k", "g", ".", "i", "n", "/">> \o vp
            THEN \A vp \in VersionedPkgs : SpecName = <<"g", "o", "p", "k", "g", ".", "i", "n", "/">> \o vp =>
                    /\ result.pkg.Account = <<"g", "o", "-">> \o PkgOf(vp)
                    /\ result.pkg.Project = PkgOf(vp)
            ELSE IF \E u \in PkgNames, vp \in VersionedPkgs :
                        SpecName = <<"g", "o", "p", "k", "g", ".", "i", "n", "/">> \o u \o <<"/">> \o vp
            THEN \A u \in PkgNames, vp \in VersionedPkgs :
                    SpecName = <<"g", "o", "p", "k", "g", ".", "i", "n", "/">> \o u \o <<"/">> \o vp =>
                        /\ result.pkg.Account = u
                        /\ result.pkg.Project = PkgOf(vp)
            ELSE /\ result.pkg.Account = << >>
                 /\ result.pkg.Project = << >>

\* C6: a plain spec with a recognised version whose name is not in the
\* table and starts with none of "github.com/", "gopkg.in/" and
\* "golang.org/x/" parses, with Account and Project both empty.
C6_OtherNameUnresolved ==
    (Returned /\ IsPlain /\ ParseVersion(SpecVersion).err = ""
        /\ SpecName \notin DOMAIN wellKnownPackages
        /\ ~HasPrefix(SpecName, <<"g", "i", "t", "h", "u", "b", ".", "c", "o", "m", "/">>)
        /\ ~HasPrefix(SpecName, <<"g", "o", "p", "k", "g", ".", "i", "n", "/">>)
        /\ ~HasPrefix(SpecName, <<"g", "o", "l", "a", "n", "g", ".", "o", "r", "g", "/", "x", "/">>)) =>
        /\ result.err = ""
        /\ result.pkg.Account = << >>
        /\ result.pkg.Project = << >>

\* C10: in every reference ParsePackage returns, Account is empty if and
\* only if Project is empty.
C10_AccountIffProject ==
    (Returned /\ result.err = "") =>
        (result.pkg.Account = << >> <=> result.pkg.Project = << >>)

----------------------------------------------------------------------------------------------------------------------------------------
(* Properties of a run of main, checked under Spec *)

\* what ParsePackage returns for each line of the manifest that carries the
\* marker; "none" for the other lines
NoLine == [err |-> "none", arg |-> << >>, pkg |-> NilPackage]
Results ==
    [j \in 1..Len(manifest) |->
        IF HasPrefix(manifest[j], specPrefix)
        THEN CHOOSE r \in {ParsePackage(s) : s \in {TrimPrefix(manifest[j], specPrefix)}} : TRUE
        ELSE NoLine]

\* a reference is resolved: its Account and its Project are both non-empty
BothSet(p) == p.Account # << >> /\ p.Project # << >>

\* of the results rs of the first k lines, in the order of the manifest: the
\* references that are resolved
RECURSIVE ResolvedUpTo(_, _)
ResolvedUpTo(rs, k) ==
    IF k = 0 THEN << >>
    ELSE IF rs[k].err = "" /\ BothSet(rs[k].pkg)
    THEN Append(ResolvedUpTo(rs, k - 1), rs[k].pkg)
    ELSE ResolvedUpTo(rs, k - 1)

\* and the references that are not
RECURSIVE UnresolvedUpTo(_, _)
UnresolvedUpTo(rs, k) ==
    IF k = 0 THEN << >>
    ELSE IF rs[k].err = "" /\ ~BothSet(rs[k].pkg)
    THEN Append(UnresolvedUpTo(rs, k - 1), rs[k].pkg)
    ELSE UnresolvedUpTo(rs, k - 1)

\* the number of times x occurs in the sequence s
Count(s, x) == Cardinality({k \in 1..Len(s) : s[k] = x})

\* the sequences s and t hold the same elements, each as many times
SameElements(s, t) ==
    /\ Len(s) = Len(t)
    /\ \A k \in 1..Len(s) : Count(s, s[k]) = Count(t, s[k])

\* the manifest was opened and no fatal error has happened
NoFatalError ==
    pc \in {"scan", "header", "print"} \/ (pc = "exit" /\ exitCode = 0 /\ stderr = << >>)

\* main returned after printing
Printed == pc = "exit" /\ exitCode = 0 /\ stderr = << >>

\* the line of the GH_TUPLE block that holds the rendered string s; every
\* line but the last of n ends in a continuation
BlockLine(s, k, n) == <<"\t", "\t">> \o s \o (IF k < n THEN <<" ", "\\">> ELSE << >>)

\* the comment line that holds the rendered string s
CommentLine(s) == <<"#", "\t", "\t">> \o s

\* C7: in a run with no fatal error each marked line of the manifest gives
\* one reference to one of the two lists (the resolved list iff Account and
\* Project are both non-empty) and the other lines give none; the GH_TUPLE
\* block holds no unresolved reference, and the unresolved references are
\* printed as comment lines after the block, in the order of the manifest.
C7_EveryReferenceInOneList ==
    NoFatalError =>
        \E rs \in {Results} :
        \E unresolved \in {UnresolvedUpTo(rs, pos)} :
        LET marked == {j \in 1..pos : rs[j].err # "none"}
            nParsed == Len(parsedPackages)
        IN  /\ nParsed + Len(unparsedPackages) = Cardinality(marked)
            /\ SameElements(parsedPackages, ResolvedUpTo(rs, pos))
            /\ unparsedPackages = unresolved
            /\ \A k \in 1..Len(stdout) :
                /\ (k > 1 /\ k <= 1 + nParsed) =>
                    /\ BothSet(parsedPackages[k - 1])
                    /\ stdout[k] = BlockLine(String(parsedPackages[k - 1]), k - 1, nParsed)
                /\ k > 1 + nParsed =>
                    stdout[k] = CommentLine(String(unresolved[k - 1 - nParsed]))
            /\ Printed => Len(stdout) = 1 + Cardinality(marked)

\* a run printed a resolved reference and then two different unresolved
\* ones, and skipped no line with the marker
C7_Witness ==
    /\ Printed
    /\ Len(parsedPackages) = 1
    /\ Len(unparsedPackages) = 2
    /\ unparsedPackages[1] # unparsedPackages[2]
    /\ Len(stdout) = 4

\* the strings ss in non-decreasing byte-wise order
InByteOrder(ss) == \A a, b \in 1..Len(ss) : a < b => ~StringLess(ss[b], ss[a])

\* C8: in a run with no fatal error the lines of the GH_TUPLE block are the
\* rendered strings of all the resolved references, rearranged into
\* non-decreasing byte-wise order; the output is therefore the same in every
\* run on the same manifest and prefix.
C8_BlockInByteOrder ==
    Printed =>
        \E pp \in {ResolvedUpTo(Results, Len(manifest))} :
        \E rendered \in {[k \in 1..Len(pp) |-> String(pp[k])]} :
        \E sorted \in {CHOOSE ss \in Rearrangements(rendered) : InByteOrder(ss)} :
        LET n == Len(rendered)
        IN  /\ Len(stdout) >= 1 + n
            /\ stdout[1] = <<"G", "H", "_", "T", "U", "P", "L", "E", "=", "\t", "\\">>
            /\ \A k \in 1..n : stdout[1 + k] = BlockLine(sorted[k], k, n)

\* a run printed three resolved references, two of them different and
\* rendered alike, in another order than the manifest's
C8_Witness ==
    /\ Printed
    /\ Len(parsedPackages) = 3
    /\ parsedPackages # ResolvedUpTo(Results, Len(manifest))
    /\ \E a, b \in 1..3 :
        /\ parsedPackages[a] # parsedPackages[b]
        /\ String(parsedPackages[a]) = String(parsedPackages[b])
    /\ \E a, b \in 1..3 : String(parsedPackages[a]) # String(parsedPackages[b])

\* C9: when ParsePackage fails on a marked line the run stops at that line
\* with exit status 1, no later line is parsed and nothing is written to
\* standard output; output exists only when every line was scanned without
\* an error.
C9_FatalErrorStopsRun ==
    \E rs \in {Results} :
    LET failing == {j \in 1..Len(manifest) : rs[j].err \notin {"", "none"}}
    IN  /\ \A j \in failing :
            pos >= j =>
                /\ pos = j
                /\ pc = "exit"
                /\ exitCode = 1
                /\ stdout = << >>
        /\ stdout # << >> =>
            /\ pos = Len(manifest)
            /\ failing = {}

\* a run stopped on a failing line after a line that parsed and before one
\* that was never read
C9_Witness ==
    /\ pc = "exit"
    /\ exitCode = 1
    /\ pos > 0 /\ pos < Len(manifest)
    /\ Results[pos].err \notin {"", "none"}
    /\ Len(parsedPackages) + Len(unparsedPackages) >= 1
    /\ stdout = << >>
====
